---- MODULE Spec2Model ----
(***************************************************************************)
(* Pharmyrus predictive layer: the applicant learning store                *)
(* (applicant_learning.py), the inference gate and the confidence model    *)
(* (predictive_layer.py).                                                  *)
(*                                                                         *)
(* Conventions                                                             *)
(*  - A Python str that the code splits, strips or searches is a sequence  *)
(*    of tokens; a token is a run of characters none of the operations     *)
(*    looks into ("Bayer AG"), a separator (";" ","), a blank (" ") or a   *)
(*    corporate suffix ("Inc.").                                           *)
(*  - A dict is a function whose DOMAIN is the set of keys present.         *)
(*  - filing_rate is held in hundredths (0.93 is 93): the store rounds it  *)
(*    to two decimals.                                                     *)
(*  - observed_wos / observed_brs are lists the code only ever reads       *)
(*    through set(...): they are sets here; a record without the key       *)
(*    (a seed record) reads as the empty set, as entry.get(key, []) does.  *)
(***************************************************************************)
EXTENDS Integers, Sequences, FiniteSets, TLC

VARIABLES
    database,   \* ApplicantLearningSystem.database of the running process
    file,       \* contents of database_path (NoFile: the path does not exist)
    last,       \* the last operation on the store: its inputs and what it returned
    mode,       \* concurrent searches: "threads" (one process, one shared
                \* store) or "processes" (each worker its own loaded copy)
    workers,    \* concurrent searches: each worker's position and locals
    stores,     \* concurrent searches: the in-memory store of each process
    cfile,      \* concurrent searches: the file the workers save to
    prior,      \* concurrent searches: the store before the searches began
    gate,       \* inference gate: the call's inputs and its result
    conf,       \* confidence model: the call's inputs and its result
    predictions, \* DynamicConfidenceEngine.predictions: the prediction
                \* objects the caller passed in, which the engine holds by
                \* reference
    raw_scores, \* DynamicConfidenceEngine.raw_scores
    updated_predictions, \* the list the last finalize_and_classify returned
    stats,      \* what the last get_statistics returned
    calls       \* number of finalize_and_classify / get_statistics calls

vars == <<database, file, last, mode, workers, stores, cfile, prior, gate, conf, predictions, raw_scores, updated_predictions, stats, calls>>
calVars == <<predictions, raw_scores, updated_predictions, stats, calls>>
storeVars == <<database, file, last>>
concVars == <<mode, workers, stores, cfile, prior>>

(***************************************************************************)
(* Bounds of the model                                                     *)
(***************************************************************************)
\* most observations in one list handed to learn_from_search_results
\* the most WO ids one applicant is observed with
MaxWos == 31
MaxObs == 2

(***************************************************************************)
(* Strings                                                                 *)
(***************************************************************************)
\* the value of a missing wo_number / wo_reference (None or '')
NoId == "none"
Unknown == <<"Unknown">>

\* str.split(sep)[0]: the part before the first sep
SplitFirst(s, sep) ==
    IF \E i \in 1..Len(s) : s[i] = sep
    THEN LET i == CHOOSE i \in 1..Len(s) : s[i] = sep /\ \A j \in 1..(i-1) : s[j] # sep
         IN SubSeq(s, 1, i - 1)
    ELSE s

\* str.strip()
Strip(s) ==
    LET keep == {i \in 1..Len(s) : s[i] # " "}
    IN IF keep = {} THEN <<>>
       ELSE LET lo == CHOOSE i \in keep : \A j \in keep : i <= j
                hi == CHOOSE i \in keep : \A j \in keep : j <= i
            IN SubSeq(s, lo, hi)

\* the replacements dict, applied by str.replace
ReplaceSuffix(tok) ==
    CASE tok = "Inc." -> "Inc"
      [] tok = "Ltd." -> "Ltd"
      [] tok = "S.A." -> "SA"
      [] tok = "Co." -> "Co"
      [] tok = "Corp." -> "Corp"
      [] OTHER -> tok

_normalize_applicant_name(applicant) ==
    IF applicant = <<>> THEN Unknown
    ELSE LET first == Strip(SplitFirst(SplitFirst(applicant, ";"), ","))
             replaced == [i \in 1..Len(first) |-> ReplaceSuffix(first[i])]
         IN Strip(replaced)

(***************************************************************************)
(* Inputs of a search                                                      *)
(***************************************************************************)
\* raw applicant names as the crawlers deliver them
PfizerOrion == <<"Pfizer", " ", "Inc.", ";", " ", "Orion">>
PfizerIncDot == <<"Pfizer", " ", "Inc.">>
PfizerInc == <<"Pfizer", " ", "Inc">>
WOIds == {"WO1", "WO2"}
TherapeuticAreas == {"Oncology"}
\* the readings of datetime.now() a call can get
Times == {1, 2}

\* the WO patents a search can find (wipo_patents is a list of these)
WoObs == { [applicant |-> PfizerOrion, wo_number |-> "WO1"],
           [applicant |-> PfizerOrion, wo_number |-> "WO2"],
           [applicant |-> Unknown, wo_number |-> "WO1"] }
\* the BR patents a search can find (brazilian_patents is a list of these)
BrObs == { [applicant |-> PfizerIncDot, wo_reference |-> "WO1"],
           [applicant |-> PfizerIncDot, wo_reference |-> "WO2"],
           [applicant |-> PfizerIncDot, wo_reference |-> NoId],
           [applicant |-> Unknown, wo_reference |-> "WO1"] }
RawNames == {o.applicant : o \in WoObs} \cup {o.applicant : o \in BrObs}

UpTo(S, n) == {T \in SUBSET S : Cardinality(T) <= n}

\* the normalized name of every raw name, computed once
NormOf == [n \in RawNames |-> _normalize_applicant_name(n)]

\* the lists a search can hand to learn_from_search_results
WipoLists == UpTo(WoObs, MaxObs)
BrLists == UpTo(BrObs, MaxObs)

\* every key a record can be stored under
Keys == ({_normalize_applicant_name(n) : n \in RawNames} \ {Unknown}) \cup {PfizerInc}

(***************************************************************************)
(* The seed database (build_applicant_database.py)                         *)
(***************************************************************************)
_calculate_confidence_Above(total_wos) ==
    IF total_wos > 30 THEN "high"
    ELSE IF total_wos > 15 THEN "medium"
    ELSE "low"

_calculate_confidence(total_wos) ==
    IF total_wos >= 30 THEN "high"
    ELSE IF total_wos >= 15 THEN "medium"
    ELSE "low"

\* "Pfizer Inc": {"rate": 0.88, "wos": 45, ...}; brs = int(wos * rate)
SeedRecord ==
    [ applicant_name |-> PfizerInc,
      total_wo_brazil_designated |-> 45,
      total_br_filings_found |-> 39,
      filing_rate |-> 88,
      therapeutic_areas |-> {"Oncology", "Vaccines", "Rare Diseases"},
      observed_wos |-> {},
      observed_brs |-> {},
      last_updated |-> 0,
      data_source |-> "industry_research_2019_2024",
      confidence |-> "high" ]

SeedKeys == {PfizerInc}
EmptyDb == [k \in {} |-> SeedRecord]
SeedDb == [k \in SeedKeys |-> SeedRecord]
\* the file at database_path: a file is absent, or holds the JSON text of a database, or holds text
\* that json.load rejects (parses = FALSE): the empty file that open(path, 'w')
\* leaves, or a prefix of the text json.dump was writing
NoFile == [exists |-> FALSE, parses |-> FALSE, db |-> EmptyDb]
FileOf(db) == [exists |-> TRUE, parses |-> TRUE, db |-> db]
PartialFile == [exists |-> TRUE, parses |-> FALSE, db |-> EmptyDb]

(***************************************************************************)
(* ApplicantLearningSystem                                                 *)
(***************************************************************************)
\* round(br / wo, 2) in hundredths; a tie goes to the even neighbour (the
\* quotients that tie exactly, such as 1/8, are exact binary fractions)
Round2(br, wo) ==
    LET q == (100 * br) \div wo
        r == (100 * br) % wo
    IN IF 2 * r < wo THEN q
       ELSE IF 2 * r > wo THEN q + 1
       ELSE IF q % 2 = 0 THEN q ELSE q + 1

_load_database(f) ==
    IF f.exists THEN (IF f.parses THEN f.db ELSE EmptyDb) ELSE EmptyDb

\* the applicant_data mapping of learn_from_search_results
BuildApplicantData(wipo_patents, brazilian_patents, therapeutic_area) ==
    [k \in Keys |->
        LET mine_wo == {wo \in wipo_patents :
                            /\ NormOf[wo.applicant] = k
                            /\ k # Unknown
                            /\ wo.wo_number # NoId}
            mine_br == {br \in brazilian_patents :
                            /\ NormOf[br.applicant] = k
                            /\ k # Unknown}
        IN [ seen |-> mine_wo # {} \/ mine_br # {},
             wos |-> {wo.wo_number : wo \in mine_wo},
             brs |-> {br.wo_reference : br \in {b \in mine_br : b.wo_reference # NoId}},
             areas |-> IF mine_wo # {} \/ mine_br # {} THEN {therapeutic_area} ELSE {} ]]

\* what _update_applicant reads of the store before it decides
ReadEntry(db, applicant) ==
    IF applicant \in DOMAIN db
    THEN [ found |-> TRUE,
           existing_wos |-> db[applicant].observed_wos,
           existing_brs |-> db[applicant].observed_brs,
           existing_areas |-> db[applicant].therapeutic_areas ]
    ELSE [ found |-> FALSE, existing_wos |-> {}, existing_brs |-> {},
           existing_areas |-> {} ]

\* a variant without the "no new data" early return
WillUpdate_NoEarlyReturn(new_data, snap) ==
    Cardinality(new_data.wos) # 0

\* a variant without the skip of applicants with no observed WO
WillUpdate_NoSkip(new_data, snap) ==
    snap.found =>
        ~ /\ (snap.existing_wos \cup new_data.wos) = snap.existing_wos
          /\ (snap.existing_brs \cup new_data.brs) = snap.existing_brs

\* whether _update_applicant modifies the store, given what it read
WillUpdate(new_data, snap) ==
    /\ Cardinality(new_data.wos) # 0
    /\ snap.found =>
          ~ /\ (snap.existing_wos \cup new_data.wos) = snap.existing_wos
            /\ (snap.existing_brs \cup new_data.brs) = snap.existing_brs

\* a variant that adds the counts instead of counting the union
NewEntry_AddCounts(db, applicant, new_data, snap, now) ==
    LET combined_wos == snap.existing_wos \cup new_data.wos
        combined_brs == snap.existing_brs \cup new_data.brs
        total_wos == Cardinality(snap.existing_wos) + Cardinality(new_data.wos)
        total_brs == Cardinality(snap.existing_brs) + Cardinality(new_data.brs)
    IN [ applicant_name |-> applicant,
         total_wo_brazil_designated |-> total_wos,
         total_br_filings_found |-> total_brs,
         filing_rate |-> Round2(total_brs, total_wos),
         therapeutic_areas |-> snap.existing_areas \cup new_data.areas,
         observed_wos |-> combined_wos,
         observed_brs |-> combined_brs,
         last_updated |-> now,
         data_source |-> "learned_from_searches",
         confidence |-> _calculate_confidence(total_wos) ]

\* the record _update_applicant writes, given what it read
NewEntry(db, applicant, new_data, snap, now) ==
    LET combined_wos == snap.existing_wos \cup new_data.wos
        combined_brs == snap.existing_brs \cup new_data.brs
        combined_areas == snap.existing_areas \cup new_data.areas
        total_wos == Cardinality(combined_wos)
        total_brs == Cardinality(combined_brs)
        filing_rate == IF total_wos > 0 THEN Round2(total_brs, total_wos)
                       ELSE IF snap.found THEN db[applicant].filing_rate ELSE 50
    IN [ applicant_name |->
            IF snap.found /\ applicant \in DOMAIN db
            THEN db[applicant].applicant_name ELSE applicant,
         total_wo_brazil_designated |-> total_wos,
         total_br_filings_found |-> total_brs,
         filing_rate |-> filing_rate,
         therapeutic_areas |-> combined_areas,
         observed_wos |-> combined_wos,
         observed_brs |-> combined_brs,
         last_updated |-> now,
         data_source |-> "learned_from_searches",
         confidence |-> _calculate_confidence(total_wos) ]

_update_applicant(db, applicant, new_data, now) ==
    LET snap == ReadEntry(db, applicant)
    IN IF WillUpdate(new_data, snap)
       THEN [ db |-> [k \in DOMAIN db \cup {applicant} |->
                        IF k = applicant THEN NewEntry(db, applicant, new_data, snap, now)
                        ELSE db[k]],
              ret |-> TRUE ]
       ELSE [ db |-> db, ret |-> FALSE ]

\* a variant that saves after every search
ShouldSave_Always(updates_made) == TRUE

\* "if updates_made > 0: self._save_database()"
ShouldSave(updates_made) == updates_made > 0

NoCall == [k \in Keys |-> [seen |-> FALSE, wos |-> {}, brs |-> {}, areas |-> {}]]
SamePairs(d1, d2) ==
    \A k \in Keys : d1[k].seen = d2[k].seen /\ d1[k].wos = d2[k].wos /\ d1[k].brs = d2[k].brs

\* learn_from_search_results: the updates touch distinct keys, so the loop
\* over applicant_data is one update per key
learn_from_search_results(wipo_patents, brazilian_patents, therapeutic_area, now) ==
    LET data == BuildApplicantData(wipo_patents, brazilian_patents, therapeutic_area)
        updated == {k \in Keys : data[k].seen /\ _update_applicant(database, k, data[k], now).ret}
        db2 == [k \in DOMAIN database \cup updated |->
                  IF k \in updated THEN _update_applicant(database, k, data[k], now).db[k]
                  ELSE database[k]]
        updates_made == Cardinality(updated)
    IN /\ database' = db2
       /\ file' = IF ShouldSave(updates_made) THEN FileOf(db2) ELSE file
       /\ last' = [ op |-> "learn", data |-> data, updated |-> updated,
                    saved |-> ShouldSave(updates_made),
                    repeat |-> last.op = "learn" /\ SamePairs(last.data, data) ]

Learn ==
    \E wipo_patents \in WipoLists, brazilian_patents \in BrLists,
       therapeutic_area \in TherapeuticAreas, now \in Times :
        /\ learn_from_search_results(wipo_patents, brazilian_patents, therapeutic_area, now)
        /\ UNCHANGED <<concVars, gate, conf, calVars>>

\* merge_with_seed_database(seed_database), seed_database the built seed
merge_with_seed_database(seed_database) ==
    LET db2 == [k \in DOMAIN database \cup DOMAIN seed_database |->
                  IF k \notin DOMAIN database THEN seed_database[k] ELSE database[k]]
    IN /\ database' = db2
       /\ file' = FileOf(db2)
       /\ last' = [ op |-> "seed", data |-> NoCall, updated |-> {},
                    saved |-> TRUE, repeat |-> FALSE ]

MergeSeed ==
    /\ merge_with_seed_database(SeedDb)
    /\ UNCHANGED <<concVars, gate, conf, calVars>>

\* a new process: ApplicantLearningSystem.__init__ loads the file
Restart ==
    /\ database' = _load_database(file)
    /\ file' = file
    /\ last' = [ op |-> "load", data |-> NoCall, updated |-> {},
                 saved |-> FALSE, repeat |-> FALSE ]
    /\ UNCHANGED <<concVars, gate, conf, calVars>>

\* what firebase_ref.get() can return: nothing, or a database that
\* export_to_firebase put there (the seed, or another instance's store that
\* holds "Bayer AG": {"rate": 0.93, "wos": 42, ...} of the seed builder)
BayerAG == <<"Bayer", " ", "AG">>
BayerRecord ==
    [ applicant_name |-> BayerAG,
      total_wo_brazil_designated |-> 42,
      total_br_filings_found |-> 39,
      filing_rate |-> 93,
      therapeutic_areas |-> {"Oncology", "Cardiovascular", "Hematology"},
      observed_wos |-> {},
      observed_brs |-> {},
      last_updated |-> 0,
      data_source |-> "industry_research_2019_2024",
      confidence |-> "high" ]
BayerDb == [k \in {BayerAG} |-> BayerRecord]
FirebaseData == {EmptyDb, SeedDb, BayerDb}

\* import_from_firebase: "if data: self.database = data; self._save_database()"
import_from_firebase(data) ==
    /\ database' = IF data # EmptyDb THEN data ELSE database
    /\ file' = IF data # EmptyDb THEN FileOf(data) ELSE file
    /\ last' = [ op |-> "import", data |-> NoCall, updated |-> {},
                 saved |-> data # EmptyDb, repeat |-> FALSE ]

ImportFromFirebase ==
    \E data \in FirebaseData :
        /\ import_from_firebase(data)
        /\ UNCHANGED <<concVars, gate, conf, calVars>>

(***************************************************************************)
(* Searches whose observations carry any applicant string: the key         *)
(* absent, empty, blank, the sentinel, or starting with a separator.       *)
(* applicant_data is the defaultdict of learn_from_search_results: its     *)
(* keys are the normalized names the two loops touched.                    *)
(***************************************************************************)
Blank == <<" ">>
SemicolonOrion == <<";", " ", "Orion">>
CommaInc == <<",", " ", "Inc.">>
\* <<>> is the missing key, None and the empty string: all are falsy
ApplicantStrings ==
    {<<>>, Unknown, Blank, SemicolonOrion, CommaInc, PfizerIncDot}
NamedWoObs == [applicant : ApplicantStrings, wo_number : WOIds \cup {NoId}]
NamedBrObs == [applicant : ApplicantStrings, wo_reference : WOIds \cup {NoId}]

\* wo.get('applicant', 'Unknown') and "if not applicant: return 'Unknown'"
NormalizedApplicant(applicant) == _normalize_applicant_name(applicant)

applicant_data(wipo_patents, brazilian_patents, therapeutic_area) ==
    LET wos_of == {wo \in wipo_patents :
                       /\ NormalizedApplicant(wo.applicant) # Unknown
                       /\ wo.wo_number # NoId}
        brs_of == {br \in brazilian_patents :
                       NormalizedApplicant(br.applicant) # Unknown}
        keys == {NormalizedApplicant(o.applicant) : o \in wos_of}
                    \cup {NormalizedApplicant(o.applicant) : o \in brs_of}
    IN [k \in keys |->
          [ wos |-> {wo.wo_number :
                        wo \in {o \in wos_of : NormalizedApplicant(o.applicant) = k}},
            brs |-> {br.wo_reference :
                        br \in {o \in brs_of :
                                   /\ NormalizedApplicant(o.applicant) = k
                                   /\ o.wo_reference # NoId}},
            areas |-> {therapeutic_area} ]]

\* learn_from_search_results on these observations, all at the same reading
\* of the clock
LearnNamed ==
    \E wipo_patents \in UpTo(NamedWoObs, 1), brazilian_patents \in UpTo(NamedBrObs, 1) :
        LET now == 1
            data == applicant_data(wipo_patents, brazilian_patents, "Oncology")
            updated == {k \in DOMAIN data :
                           _update_applicant(database, k, data[k], now).ret}
            db2 == [k \in DOMAIN database \cup updated |->
                      IF k \in updated
                      THEN _update_applicant(database, k, data[k], now).db[k]
                      ELSE database[k]]
        IN /\ database' = db2
           /\ file' = IF ShouldSave(Cardinality(updated)) THEN FileOf(db2) ELSE file
           /\ last' = [ op |-> "learn", data |-> NoCall, updated |-> updated,
                        saved |-> ShouldSave(Cardinality(updated)),
                        repeat |-> FALSE ]
           /\ UNCHANGED <<concVars, gate, conf, calVars>>

\* C23: after any sequence of learn operations the store holds no record
\* keyed by the sentinel "Unknown" or by an empty name: observations whose
\* applicant is missing, empty, blank or begins with a separator create no
\* record.
C23_NoSentinelRecord ==
    /\ Unknown \notin DOMAIN database
    /\ <<>> \notin DOMAIN database

(***************************************************************************)
(* An applicant observed with many WOs: searches that each bring one or    *)
(* two WO ids the store has not seen (ids are numbers here), and seed      *)
(* merges in between.  Of the WOs only the first two can have entered      *)
(* Brazil, and every search reads the same clock.                          *)
(***************************************************************************)
LearnMany ==
    \E j \in 1..2, entered \in BOOLEAN :
        LET now == 1
            m == Cardinality(ReadEntry(database, PfizerInc).existing_wos)
            wos == (m + 1)..(m + j)
            new_data == [ wos |-> wos, brs |-> IF entered THEN wos \cap (1..2) ELSE {},
                          areas |-> {"Oncology"} ]
            upd == _update_applicant(database, PfizerInc, new_data, now)
        IN /\ m + j <= MaxWos
           /\ database' = upd.db
           /\ file' = IF ShouldSave(IF upd.ret THEN 1 ELSE 0)
                      THEN FileOf(upd.db) ELSE file
           /\ last' = [ op |-> "learn", data |-> NoCall,
                        updated |-> IF upd.ret THEN {PfizerInc} ELSE {},
                        saved |-> upd.ret, repeat |-> FALSE ]
           /\ UNCHANGED <<concVars, gate, conf, calVars>>

(***************************************************************************)
(* Claims about the learning store                                         *)
(***************************************************************************)
\* the ids a record holds for an applicant; none when nothing is stored
StoredWos(db, k) == IF k \in DOMAIN db THEN db[k].observed_wos ELSE {}
StoredBrs(db, k) == IF k \in DOMAIN db THEN db[k].observed_brs ELSE {}
\* the merge of data[k] brings an id the store does not hold
HasNewIds(db, data, k) ==
    ~ (data[k].wos \subseteq StoredWos(db, k) /\ data[k].brs \subseteq StoredBrs(db, k))
\* the step is a call of learn_from_search_results
LearnStep == last'.op = "learn"

\* C2: merging the same (wo_ids, br_ids) for every applicant twice in a row,
\* the second merge returns false for every applicant and leaves the store
\* (memory and file) exactly as the first merge left it.
C2_Idempotent ==
    [][ (LearnStep /\ last'.repeat) =>
            /\ last'.updated = {}
            /\ database' = database
            /\ file' = file
            /\ ~ last'.saved ]_vars

\* C2 witness: a search was repeated with the same ids right after a search
\* that had merged WO ids into a stored record.
C2_Witness ==
    /\ last.op = "learn" /\ last.repeat
    /\ \E k \in DOMAIN database :
          /\ last.data[k].wos # {}
          /\ last.data[k].wos \subseteq database[k].observed_wos
          /\ database[k].data_source = "learned_from_searches"

\* C3: every merge that returns true leaves total_wo_observed and
\* total_br_observed of a stored record at least as large as before.
C3_Monotonic ==
    [][ LearnStep =>
          \A k \in last'.updated \cap DOMAIN database :
              /\ database'[k].total_wo_brazil_designated
                    >= database[k].total_wo_brazil_designated
              /\ database'[k].total_br_filings_found
                    >= database[k].total_br_filings_found ]_vars

\* what C4 promises of applicant k after the merge of data[k]
UnionTotals(k) ==
    /\ k \in DOMAIN database'
    /\ database'[k].total_wo_brazil_designated
          = Cardinality(StoredWos(database, k) \cup last'.data[k].wos)
    /\ database'[k].total_br_filings_found
          = Cardinality(StoredBrs(database, k) \cup last'.data[k].brs)
    /\ database'[k].total_wo_brazil_designated > 0
    /\ database'[k].filing_rate
          = Round2(database'[k].total_br_filings_found,
                   database'[k].total_wo_brazil_designated)

\* C4 as stated: after a merge that brings at least one new WO or BR id, the
\* totals are the sizes of the unions and filing_rate is their rounded ratio.
C4_UnionAsStated ==
    [][ LearnStep =>
          \A k \in Keys :
              (last'.data[k].seen /\ HasNewIds(database, last'.data, k))
                  => UnionTotals(k) ]_vars

\* C4 amended: after a merge that observed at least one WO id and brings at
\* least one new WO or BR id, the totals are the sizes of the unions and
\* filing_rate is their rounded ratio.
C4_UnionAmended ==
    [][ LearnStep =>
          \A k \in Keys :
              ( /\ last'.data[k].seen
                /\ last'.data[k].wos # {}
                /\ HasNewIds(database, last'.data, k) )
                  => UnionTotals(k) ]_vars

\* C4 witness: a merge added a new WO id to a record that already held one
\* and held a BR id, so both unions are proper.
C4_Witness ==
    /\ last.op = "learn"
    /\ \E k \in last.updated :
          /\ last.data[k].wos # {}
          /\ last.data[k].wos # database[k].observed_wos
          /\ last.data[k].brs # database[k].observed_brs
          /\ database[k].observed_brs # {}

\* C5: a merge that adds no new WO id and no new BR id leaves the record
\* unchanged (absent stays absent), and a learn call that changed no record
\* does not write the file.
C5_NoOp ==
    [][ LearnStep =>
          /\ \A k \in Keys :
                ~ HasNewIds(database, last'.data, k) =>
                    /\ (k \in DOMAIN database') = (k \in DOMAIN database)
                    /\ k \in DOMAIN database => database'[k] = database[k]
          /\ database' = database => (~ last'.saved /\ file' = file) ]_vars

\* C5 witness: a search observed WO and BR ids of a stored applicant that
\* were all stored already, and the call did not save.
C5_Witness ==
    /\ last.op = "learn" /\ last.updated = {} /\ ~ last.saved
    /\ \E k \in DOMAIN database :
          /\ last.data[k].wos # {} /\ last.data[k].brs # {}
          /\ last.data[k].wos \subseteq database[k].observed_wos
          /\ last.data[k].brs \subseteq database[k].observed_brs

\* C24: every record written by the learning store has evidence_level
\* (the stored 'confidence') high iff its total_wo_observed is at least 30,
\* medium iff it is at least 15 and below 30, and low otherwise.
C24_EvidenceLevel ==
    \A k \in DOMAIN database :
        LET total_wos == database[k].total_wo_brazil_designated
            level == database[k].confidence
        IN  /\ level = "high" <=> total_wos >= 30
            /\ level = "medium" <=> (total_wos >= 15 /\ total_wos < 30)
            /\ level = "low" <=> total_wos < 15

\* a learned record that has just reached 30 observed WOs
C24_Witness ==
    /\ PfizerInc \in DOMAIN database
    /\ database[PfizerInc].data_source = "learned_from_searches"
    /\ Cardinality(database[PfizerInc].observed_wos) = 30
    /\ database[PfizerInc].confidence = "high"

\* C26: after any sequence of learn operations from an empty store every
\* record has total_br_observed <= total_wo_observed, so filing_rate is at
\* most 1: every WO id counted as entered into Brazil is one of the
\* applicant's observed WO ids.
C26_BrWithinWo ==
    \A k \in DOMAIN database :
        /\ database[k].total_br_filings_found
               <= database[k].total_wo_brazil_designated
        /\ database[k].filing_rate <= 100
        /\ database[k].observed_brs \subseteq database[k].observed_wos

\* C19: applicant records are never deleted: a name that has a record in the
\* store has one after every learn, seed merge, Firebase import and restart.
C19_NeverDeleted ==
    [][DOMAIN database \subseteq DOMAIN database']_vars

(***************************************************************************)
(* Concurrent searches on the store                                        *)
(*                                                                         *)
(* Each worker runs learn_from_search_results for a search that observed   *)
(* the applicant TheApplicant with at least one WO.  Nothing in the class  *)
(* takes a lock, so the steps of _update_applicant and _save_database of   *)
(* two workers interleave: the read of the stored sets (lines 163-177),    *)
(* the write of the entry (lines 179-214) and the save (lines 143-144).    *)
(* In mode "threads" the workers are threads of one process and share the  *)
(* singleton of get_learning_system; in mode "processes" each worker is a  *)
(* process (a Celery worker, the API server) with its own singleton,       *)
(* loaded from the file, and all save to the same path.                    *)
(***************************************************************************)
Workers == {1, 2}
TheApplicant == PfizerInc

\* the process whose store worker w uses
ProcOf(w) == IF mode = "threads" THEN 1 ELSE w

\* the applicant_data of the searches that observed a WO of the applicant
ObservingData ==
    { BuildApplicantData(wl, bl, "Oncology") : wl \in WipoLists, bl \in BrLists }
    \cap { d \in [Keys -> [seen : BOOLEAN, wos : SUBSET WOIds, brs : SUBSET WOIds,
                            areas : SUBSET TherapeuticAreas]] :
               d[TheApplicant].wos # {} }

\* the stores the searches can start from: empty, the seed database, or a
\* store that has learned one WO of the applicant
PriorStores ==
    { EmptyDb, SeedDb,
      _update_applicant(EmptyDb, TheApplicant,
          [seen |-> TRUE, wos |-> {"WO1"}, brs |-> {}, areas |-> {"Oncology"}], 1).db }

InitConc ==
    /\ mode \in {"threads", "processes"}
    /\ prior \in PriorStores
    /\ stores = [p \in Workers |-> prior]
    /\ cfile = IF prior = EmptyDb THEN NoFile ELSE FileOf(prior)
    /\ \E d1 \in ObservingData, d2 \in ObservingData :
          workers = [w \in Workers |->
                       [ pc |-> "read", data |-> IF w = 1 THEN d1 ELSE d2,
                         snap |-> ReadEntry(EmptyDb, TheApplicant),
                         updates_made |-> 0 ]]

\* _update_applicant up to its decision: the membership test, the reads of
\* the stored sets and the "no new data" comparison
CRead(w) ==
    /\ workers[w].pc = "read"
    /\ LET snap == ReadEntry(stores[ProcOf(w)], TheApplicant)
       IN workers' = [workers EXCEPT
                        ![w].snap = snap,
                        ![w].pc = IF WillUpdate(workers[w].data[TheApplicant], snap)
                                  THEN "write" ELSE "save"]
    /\ UNCHANGED <<mode, stores, cfile, prior, storeVars, gate, conf, calVars>>

\* _update_applicant from "Recalculate filing rate" to its return: the
\* entry is written from the sets read before
CWrite(w) ==
    /\ workers[w].pc = "write"
    /\ \E now \in Times :
          LET db == stores[ProcOf(w)]
              entry == NewEntry(db, TheApplicant, workers[w].data[TheApplicant],
                                workers[w].snap, now)
          IN stores' = [stores EXCEPT ![ProcOf(w)] =
                          [k \in DOMAIN db \cup {TheApplicant} |->
                              IF k = TheApplicant THEN entry ELSE db[k]]]
    /\ workers' = [workers EXCEPT ![w].pc = "save",
                                  ![w].updates_made = workers[w].updates_made + 1]
    /\ UNCHANGED <<mode, cfile, prior, storeVars, gate, conf, calVars>>

\* the end of learn_from_search_results: save when an update was made
CSave(w) ==
    /\ workers[w].pc = "save"
    /\ cfile' = IF ShouldSave(workers[w].updates_made)
                THEN FileOf(stores[ProcOf(w)]) ELSE cfile
    /\ workers' = [workers EXCEPT ![w].pc = "done"]
    /\ UNCHANGED <<mode, stores, prior, storeVars, gate, conf, calVars>>

IdleStore ==
    /\ database = EmptyDb /\ file = NoFile
    /\ last = [ op |-> "init", data |-> NoCall, updated |-> {},
                saved |-> FALSE, repeat |-> FALSE ]

(***************************************************************************)
(* Claims about concurrent searches                                        *)
(***************************************************************************)
AllDone == mode # "idle" /\ \A w \in Workers : workers[w].pc = "done"
UnionWos == StoredWos(prior, TheApplicant)
               \cup workers[1].data[TheApplicant].wos
               \cup workers[2].data[TheApplicant].wos
UnionBrs == StoredBrs(prior, TheApplicant)
               \cup workers[1].data[TheApplicant].brs
               \cup workers[2].data[TheApplicant].brs

\* C1: once both searches have completed, in every interleaving, the
\* persisted record (and, for two threads, the shared stored record) of the
\* applicant holds the union of the previously stored ids and the ids of
\* both searches.
C1_NoLostUpdate ==
    AllDone =>
        /\ StoredWos(_load_database(cfile), TheApplicant) = UnionWos
        /\ StoredBrs(_load_database(cfile), TheApplicant) = UnionBrs
        /\ mode = "threads" =>
              /\ StoredWos(stores[1], TheApplicant) = UnionWos
              /\ StoredBrs(stores[1], TheApplicant) = UnionBrs

(***************************************************************************)
(* The inference gate of the predictive layer (predictive_layer.py)        *)
(*                                                                         *)
(* Dates are whole days.  A WO record carries its number, the Brazil       *)
(* designation (true, false, or the key absent), the priority date (a day, *)
(* or a value that does not parse) and the applicant string as WIPO gives  *)
(* it.  A known BR record carries its wo_reference and its free-text notes *)
(* (the empty sequence when the key is absent).                            *)
(***************************************************************************)
MaxKnown == 1
\* the most WO filings one call of add_predictive_layer is given
MaxFilings == 2

WoNumbers == { <<"WO1">>, <<"WO2">> }
Designations == {"true", "false", "absent"}
ReferenceDates == {1000}
Todays == {1000, 1400}
\* priorities whose deadline is passed by one day, falls on the reference
\* date, and lies 500 days ahead (a priority 400 days before the reference)
PriorityDays == {99, 100, 600}
PriorityDates == { [ok |-> TRUE, day |-> d] : d \in PriorityDays }
                    \cup { [ok |-> FALSE, day |-> 0] }
Pfizer == <<"Pfizer">>
GateApplicants == {PfizerInc, PfizerOrion, Pfizer, Unknown}
WoData ==
    [ wo_number : WoNumbers, brazil_designated : Designations,
      priority_date : PriorityDates, applicant : GateApplicants ]

NoRef == <<>>
NoNotes == <<>>
BrData ==
    [ patent_number : {"BR1"},
      wo_reference : WoNumbers \cup {NoRef},
      notes : {NoNotes, <<"PCT", " ", "WO1">>} ]
ExistingBrData == UpTo(BrData, MaxKnown)

\* ApplicantBehavior.from_dict
from_dict(data) ==
    [ applicant_name |-> data.applicant_name,
      total_wo_brazil_designated |-> data.total_wo_brazil_designated,
      total_br_filings_found |-> data.total_br_filings_found,
      filing_rate |-> data.filing_rate,
      therapeutic_areas |-> data.therapeutic_areas,
      last_updated |-> data.last_updated ]

\* the applicant_db that search_patents builds from get_all_applicants()
ApplicantDbOf(db) == [name \in DOMAIN db |-> from_dict(db[name])]

\* a store that learned two WOs of the applicant, one of which entered Brazil
LearnedDb ==
    _update_applicant(EmptyDb, PfizerInc,
        [seen |-> TRUE, wos |-> {"WO1", "WO2"}, brs |-> {"WO1"},
         areas |-> {"Oncology"}], 1).db
ApplicantDatabases == { ApplicantDbOf(db) : db \in {EmptyDb, SeedDb, LearnedDb} }

\* Python's "s in t" on strings
IsSubstring(s, t) ==
    \E i \in 0..(Len(t) - Len(s)) : SubSeq(t, i + 1, i + Len(s)) = s

FallbackDays == 540
ThirtyMonths == 30 * 30

from_wo_data_DesignatedByDefault(wo_data, now) ==
    LET priority == IF wo_data.priority_date.ok THEN wo_data.priority_date.day
                    ELSE now - FallbackDays
    IN [ priority_date |-> priority,
         thirty_month_deadline |-> priority + ThirtyMonths,
         brazil_designated |-> wo_data.brazil_designated # "false" ]

\* PCTTimeline.from_wo_data; now is datetime.now() at the call
from_wo_data(wo_data, now) ==
    LET priority == IF wo_data.priority_date.ok THEN wo_data.priority_date.day
                    ELSE now - FallbackDays
    IN [ priority_date |-> priority,
         thirty_month_deadline |-> priority + ThirtyMonths,
         brazil_designated |-> wo_data.brazil_designated = "true" ]

is_within_filing_window(timeline, reference_date) ==
    reference_date <= timeline.thirty_month_deadline

deadline_passed(timeline, reference_date) ==
    reference_date > timeline.thirty_month_deadline

should_create_inferred_event(wo_data, existing_br_numbers, applicant_database, reference_date, now) ==
    LET timeline == from_wo_data(wo_data, now)
        wo_number == wo_data.wo_number
    IN  IF ~timeline.brazil_designated THEN FALSE
        ELSE IF \E br_data \in existing_br_numbers :
                    IsSubstring(wo_number, br_data.notes) THEN FALSE
        ELSE IF is_within_filing_window(timeline, reference_date) THEN TRUE
        ELSE IF deadline_passed(timeline, reference_date)
             THEN LET applicant_name == wo_data.applicant
                  IN /\ applicant_name \in DOMAIN applicant_database
                     /\ applicant_database[applicant_name].filing_rate >= 70
        ELSE FALSE

\* the optional Cortellis benchmark: not supplied, supplied with a BR
\* number, supplied without one
Benchmarks ==
    { [present |-> FALSE, br_number |-> "None"],
      [present |-> TRUE, br_number |-> "BR112020"],
      [present |-> TRUE, br_number |-> "None"] }

BrNumberOf_FromBenchmark(cortellis_benchmark) ==
    IF cortellis_benchmark.present THEN cortellis_benchmark.br_number ELSE "None"

\* event["brazilian_prediction"]["br_number"]
BrNumberOf(cortellis_benchmark) == "None"

\* event["cortellis_comparison"]["cortellis_br_number"], when the key is set
CortellisBrNumberOf(cortellis_benchmark) ==
    IF cortellis_benchmark.present THEN cortellis_benchmark.br_number
    ELSE "absent"

InitGate ==
    \E wo_data \in WoData, existing_br_data \in ExistingBrData,
       applicant_database \in ApplicantDatabases,
       reference_date \in ReferenceDates, now \in Todays,
       cortellis_benchmark \in Benchmarks :
        gate = [ phase |-> "call", wo_data |-> wo_data,
                 existing_br_data |-> existing_br_data,
                 applicant_database |-> applicant_database,
                 reference_date |-> reference_date, now |-> now,
                 cortellis_benchmark |-> cortellis_benchmark,
                 event |-> "pending", br_number |-> "absent",
                 cortellis_br_number |-> "absent" ]

\* create_inferred_event: None when the gate rejects, else the event with
\* its br_number and, when a benchmark is supplied, the benchmark's number
\* under cortellis_comparison
create_inferred_event ==
    /\ gate.phase = "call"
    /\ LET created == should_create_inferred_event(gate.wo_data,
                          gate.existing_br_data, gate.applicant_database,
                          gate.reference_date, gate.now)
       IN gate' = [gate EXCEPT
                     !.phase = "done",
                     !.event = IF created THEN "InferredEvent" ELSE "None",
                     !.br_number =
                         IF created THEN BrNumberOf(gate.cortellis_benchmark)
                         ELSE "absent",
                     !.cortellis_br_number =
                         IF created
                         THEN CortellisBrNumberOf(gate.cortellis_benchmark)
                         ELSE "absent"]
    /\ UNCHANGED <<storeVars, concVars, conf, calVars>>

(***************************************************************************)
(* The dates of a WO dict as from_wo_data receives them                    *)
(*                                                                         *)
(* A date value is absent from the dict, the empty string, None, a string  *)
(* that is no date, an ISO date, or a string whose first ten characters    *)
(* are a date and whose rest datetime.fromisoformat rejects.               *)
(***************************************************************************)
RawDates ==
    { [kind |-> k, day |-> 0] : k \in {"absent", "empty", "null", "malformed"} }
        \cup { [kind |-> "iso", day |-> d] : d \in {100, 600} }
        \cup { [kind |-> "date_prefix", day |-> 100] }

\* wo_data.get(key, ''): the default replaces an absent key only
GetDate(raw) == IF raw.kind = "absent" THEN [kind |-> "empty", day |-> 0] ELSE raw

\* "if not s: raise ValueError"; datetime.fromisoformat(s.replace('Z', '+00:00'))
\* (None has no replace: AttributeError)
fromisoformat(raw) ==
    IF raw.kind = "iso" THEN [ok |-> TRUE, day |-> raw.day]
    ELSE [ok |-> FALSE, day |-> 0]

\* datetime.strptime(s[:10], '%Y-%m-%d') (None has no slice: TypeError)
strptime(raw) ==
    IF raw.kind \in {"iso", "date_prefix"} THEN [ok |-> TRUE, day |-> raw.day]
    ELSE [ok |-> FALSE, day |-> 0]

\* the two nested try blocks: the first parse, on any exception the second,
\* on any exception of the second no date
ParseDate(raw) ==
    LET s == GetDate(raw)
    IN IF fromisoformat(s).ok THEN fromisoformat(s) ELSE strptime(s)

\* the publication date of the timeline; now is datetime.now() at the call
publication_date(raw, now) ==
    IF ParseDate(raw).ok THEN ParseDate(raw).day ELSE now

InitTimeline ==
    \E priority \in RawDates, publication \in RawDates,
       brazil_designated \in Designations,
       reference_date \in ReferenceDates, now \in Todays :
        gate = [ phase |-> "call",
                 wo_data |-> [ priority_date |-> priority,
                               publication_date |-> publication,
                               brazil_designated |-> brazil_designated ],
                 reference_date |-> reference_date, now |-> now,
                 timeline |-> [ priority_date |-> 0, publication_date |-> 0,
                                thirty_month_deadline |-> 0,
                                brazil_designated |-> FALSE ] ]

\* timeline = PCTTimeline.from_wo_data(wo_data), called by an engine whose
\* reference date is gate.reference_date
FromWoData ==
    /\ gate.phase = "call"
    /\ LET parsed == [ priority_date |-> ParseDate(gate.wo_data.priority_date),
                       brazil_designated |-> gate.wo_data.brazil_designated ]
           timeline == from_wo_data(parsed, gate.now)
       IN gate' = [gate EXCEPT
                     !.phase = "returned",
                     !.timeline =
                         [ priority_date |-> timeline.priority_date,
                           publication_date |->
                               publication_date(gate.wo_data.publication_date,
                                                gate.now),
                           thirty_month_deadline |-> timeline.thirty_month_deadline,
                           brazil_designated |-> timeline.brazil_designated ]]
    /\ UNCHANGED <<storeVars, concVars, conf, calVars>>

\* C20: from_wo_data returns for every priority_date and publication_date
\* value; a missing or malformed priority_date is replaced by the engine's
\* reference date minus 540 days, a missing or malformed publication_date by
\* the engine's reference date.
C20_FallbackFromReference ==
    gate.phase = "returned" =>
        /\ ~ParseDate(gate.wo_data.priority_date).ok
              => gate.timeline.priority_date = gate.reference_date - FallbackDays
        /\ ~ParseDate(gate.wo_data.publication_date).ok
              => gate.timeline.publication_date = gate.reference_date

(***************************************************************************)
(* Looking up an applicant: get_applicant_behavior of the learning store   *)
(* and the lookup create_inferred_event does in the engine's               *)
(* applicant_database.  A result is None, a stored record (under its key)  *)
(* or the default the engine builds; evidence_level is the record's        *)
(* 'confidence' field, which an ApplicantBehavior does not have.           *)
(***************************************************************************)
LookupNames == GateApplicants \cup {PfizerIncDot, BayerAG, <<>>}
LookupStores ==
    PriorStores \cup {LearnedDb, BayerDb,
                      [k \in {PfizerInc, BayerAG} |->
                          IF k = PfizerInc THEN SeedRecord ELSE BayerRecord]}

NoneResult ==
    [kind |-> "None", key |-> <<>>, filing_rate |-> 0, evidence_level |-> "absent"]

\* get_applicant_behavior: self.database.get(normalized)
get_applicant_behavior(db, applicant) ==
    LET normalized == _normalize_applicant_name(applicant)
    IN IF normalized \in DOMAIN db
       THEN [ kind |-> "record", key |-> normalized,
              filing_rate |-> db[normalized].filing_rate,
              evidence_level |-> db[normalized].confidence ]
       ELSE NoneResult

\* self.applicant_database.get(applicant_name, ApplicantBehavior(...,
\* filing_rate=0.50, ...)) of create_inferred_event
EngineApplicant(applicant_database, applicant_name) ==
    IF applicant_name \in DOMAIN applicant_database
    THEN [ kind |-> "record", key |-> applicant_name,
           filing_rate |-> applicant_database[applicant_name].filing_rate,
           evidence_level |-> "absent" ]
    ELSE [ kind |-> "default", key |-> applicant_name,
           filing_rate |-> 50, evidence_level |-> "absent" ]

InitLookup ==
    \E db \in LookupStores, applicant \in LookupNames :
        gate = [ phase |-> "call", database |-> db, applicant |-> applicant,
                 result |-> NoneResult ]

GetApplicantBehavior ==
    /\ gate.phase = "call"
    /\ gate' = [gate EXCEPT
                  !.phase = "store",
                  !.result = get_applicant_behavior(gate.database, gate.applicant)]
    /\ UNCHANGED <<storeVars, concVars, conf, calVars>>

EngineLookup ==
    /\ gate.phase = "call"
    /\ gate' = [gate EXCEPT
                  !.phase = "engine",
                  !.result = EngineApplicant(ApplicantDbOf(gate.database),
                                             gate.applicant)]
    /\ UNCHANGED <<storeVars, concVars, conf, calVars>>

(***************************************************************************)
(* Claims about the inference gate                                         *)
(***************************************************************************)
GateDone == gate.phase = "done"
Referenced(wo_data, brs) == \E br \in brs : br.wo_reference = wo_data.wo_number
Mentioned(wo_data, brs) == \E br \in brs : IsSubstring(wo_data.wo_number, br.notes)
GateTimeline == from_wo_data(gate.wo_data, gate.now)

\* C6: a WO filing for which the known-BR list holds a BR filing whose
\* wo_reference equals the filing's wo_number never produces an
\* InferredEvent, whatever the other fields of the BR filing hold.
C6_MatchedNeverEmits ==
    (GateDone /\ Referenced(gate.wo_data, gate.existing_br_data))
        => gate.event = "None"

\* C7: a filing whose brazil_designated is false, or absent, never produces
\* an InferredEvent, whatever the timeline, the applicant and the known BRs.
C7_NotDesignated ==
    (GateDone /\ gate.wo_data.brazil_designated \in {"false", "absent"})
        => gate.event = "None"

\* a filing without the brazil_designated key that passes every other check
\* of the gate (no known BR, window open) and is rejected
C7_Witness ==
    /\ GateDone
    /\ gate.wo_data.brazil_designated = "absent"
    /\ gate.existing_br_data = {}
    /\ is_within_filing_window(GateTimeline, gate.reference_date)
    /\ gate.event = "None"

\* the filing_rate of the applicant store's lookup as the specification
\* describes it: the record under the normalized name, else a record whose
\* key contains the name or is contained in it, else the default 0.5
FuzzyKeys(db, name) ==
    { k \in DOMAIN db : IsSubstring(k, name) \/ IsSubstring(name, k) }
StoreLookupRate(db, applicant) ==
    LET name == _normalize_applicant_name(applicant)
    IN  IF name \in DOMAIN db THEN db[name].filing_rate
        ELSE IF FuzzyKeys(db, name) # {}
             THEN db[CHOOSE k \in FuzzyKeys(db, name) : TRUE].filing_rate
        ELSE 50

\* C8: for a Brazil-designated filing with no matching known BR whose
\* deadline has passed at the reference date, an event is produced if and
\* only if the filing_rate that the store's lookup yields for the applicant
\* is at least 0.70.
C8_PassedDeadlineGate ==
    ( /\ GateDone
      /\ gate.wo_data.brazil_designated = "true"
      /\ ~Referenced(gate.wo_data, gate.existing_br_data)
      /\ ~Mentioned(gate.wo_data, gate.existing_br_data)
      /\ deadline_passed(GateTimeline, gate.reference_date) )
        => ( gate.event = "InferredEvent"
               <=> StoreLookupRate(gate.applicant_database,
                                   gate.wo_data.applicant) >= 70 )

\* C22: looking up an applicant name never returns nothing: it returns the
\* record stored under the normalized name if one exists, otherwise a
\* record whose key is a substring match of the name, otherwise a default
\* with filing_rate 0.5 and evidence_level low.
C22_LookupTotal ==
    gate.phase \in {"store", "engine"} =>
        LET name == _normalize_applicant_name(gate.applicant)
            db == gate.database
            r == gate.result
        IN  /\ r.kind # "None"
            /\ IF name \in DOMAIN db
               THEN r.kind = "record" /\ r.key = name
               ELSE IF FuzzyKeys(db, name) # {}
               THEN r.kind = "record" /\ r.key \in FuzzyKeys(db, name)
               ELSE /\ r.kind = "default"
                    /\ r.filing_rate = 50
                    /\ r.evidence_level = "low"

\* C14: every InferredEvent that is emitted carries br_number = null, for
\* every input and fallback path, also when a benchmark record holding a BR
\* number is supplied.
C14_NoBrNumber ==
    (GateDone /\ gate.event = "InferredEvent") => gate.br_number = "None"

\* an event emitted for a filing without a parseable priority date while a
\* benchmark with a BR number is supplied
C14_Witness ==
    /\ GateDone
    /\ gate.event = "InferredEvent"
    /\ gate.cortellis_benchmark = [present |-> TRUE, br_number |-> "BR112020"]
    /\ ~gate.wo_data.priority_date.ok
    /\ gate.br_number = "None"

(***************************************************************************)
(* The confidence formula of the predictive layer (predictive_layer.py)    *)
(*                                                                         *)
(* Scores are exact decimals: a filing rate and the timeline and family    *)
(* scores are counted in hundredths, a multiplier in tenths, the applicant *)
(* and market scores in thousandths, and the weighted sum in units of      *)
(* 0.00001.  The code computes the sum in binary floating point, whose     *)
(* result differs from the exact sum by less than one unit: the comparison *)
(* of a sum that equals a tier threshold exactly, and the rounding of a    *)
(* sum that lies exactly half-way between two hundredths, can fall on      *)
(* either side, so both outcomes are behaviours of the model.              *)
(***************************************************************************)
Min(a, b) == IF a <= b THEN a ELSE b
Max(a, b) == IF a >= b THEN a ELSE b

HIGH_PRIORITY_IPC ==
    { <<"A61K", "3", "1">>, <<"A61K", "3", "9">>, <<"A61P", "3", "1">>,
      <<"A61P", "3", "5">>, <<"A61P", "2", "5">>, <<"A61P", "9">>,
      <<"A61P", "3">> }
HIGH_PRIORITY_AREAS ==
    { <<"Oncology">>, <<"HIV/AIDS">>, <<"Tuberculosis">>,
      <<"Neglected", " ", "Diseases">>, <<"Vaccines">>,
      <<"CNS", " ", "Disorders">>, <<"Diabetes">> }

\* str.startswith
StartsWith(s, prefix) ==
    Len(prefix) <= Len(s) /\ SubSeq(s, 1, Len(prefix)) = prefix

\* str.lower
LowerWord(w) ==
    CASE w = "Oncology" -> "oncology"
      [] w = "HIV/AIDS" -> "hiv/aids"
      [] w = "Tuberculosis" -> "tuberculosis"
      [] w = "Neglected" -> "neglected"
      [] w = "Diseases" -> "diseases"
      [] w = "Vaccines" -> "vaccines"
      [] w = "CNS" -> "cns"
      [] w = "Disorders" -> "disorders"
      [] w = "Diabetes" -> "diabetes"
      [] w = "Unknown" -> "unknown"
      [] w = "Pediatric" -> "pediatric"
      [] OTHER -> w
Lower(s) == [i \in 1..Len(s) |-> LowerWord(s[i])]

\* MarketRelevance.market_multiplier, in tenths
market_multiplier(market) ==
    LET ipc_relevant ==
            \E i \in 1..Len(market.ipc_codes) :
                \E priority \in HIGH_PRIORITY_IPC :
                    StartsWith(market.ipc_codes[i], priority)
        area_relevant ==
            \E priority \in HIGH_PRIORITY_AREAS :
                IsSubstring(Lower(priority), Lower(market.therapeutic_area))
    IN  IF ipc_relevant /\ area_relevant THEN 12
        ELSE IF ipc_relevant \/ area_relevant THEN 11
        ELSE 9

\* ApplicantBehavior.confidence_multiplier, in tenths
confidence_multiplier(applicant) ==
    IF applicant.filing_rate >= 90 THEN 12
    ELSE IF applicant.filing_rate >= 70 THEN 10
    ELSE IF applicant.filing_rate >= 40 THEN 8
    ELSE 6

days_until_deadline(timeline, reference_date) ==
    Max(0, timeline.thirty_month_deadline - reference_date)

classify_tier_Exclusive(confidence) ==
    IF confidence > 95000 THEN "PUBLISHED"
    ELSE IF confidence > 85000 THEN "FOUND"
    ELSE IF confidence > 72000 THEN "INFERRED"
    ELSE IF confidence > 58000 THEN "EXPECTED"
    ELSE IF confidence > 40000 THEN "PREDICTED"
    ELSE "SPECULATIVE"

\* PredictiveInferenceEngine.classify_tier; confidence in units of 0.00001
classify_tier(confidence) ==
    IF confidence >= 95000 THEN "PUBLISHED"
    ELSE IF confidence >= 85000 THEN "FOUND"
    ELSE IF confidence >= 72000 THEN "INFERRED"
    ELSE IF confidence >= 58000 THEN "EXPECTED"
    ELSE IF confidence >= 40000 THEN "PREDICTED"
    ELSE "SPECULATIVE"

\* Component 1 of calculate_confidence, in hundredths
timeline_score_AtLeast(timeline, reference_date) ==
    IF is_within_filing_window(timeline, reference_date)
    THEN LET days_left == days_until_deadline(timeline, reference_date)
         IN  IF days_left >= 365 THEN 70
             ELSE IF days_left >= 180 THEN 85
             ELSE IF days_left >= 90 THEN 92
             ELSE 95
    ELSE 75

timeline_score(timeline, reference_date) ==
    IF is_within_filing_window(timeline, reference_date)
    THEN LET days_left == days_until_deadline(timeline, reference_date)
         IN  IF days_left > 365 THEN 70
             ELSE IF days_left > 180 THEN 85
             ELSE IF days_left > 90 THEN 92
             ELSE 95
    ELSE 75

\* Component 2, in thousandths
applicant_score(applicant) ==
    LET applicant_base_score == Min(applicant.filing_rate, 95)
    IN  Min(applicant_base_score * confidence_multiplier(applicant), 950)

\* Component 3, in thousandths
market_score(market) == 80 * market_multiplier(market)

\* Component 4, in hundredths
family_score(family_size) ==
    IF family_size >= 20 THEN 95
    ELSE IF family_size >= 15 THEN 88
    ELSE IF family_size >= 8 THEN 75
    ELSE IF family_size >= 4 THEN 60
    ELSE 45

\* the weighted combination of calculate_confidence before the cap, exact
WeightedSum(timeline, applicant, market, family_size, reference_date) ==
    timeline_score(timeline, reference_date) * 300
      + applicant_score(applicant) * 40
      + market_score(market) * 20
      + family_score(family_size) * 100

CapOverall_None(sum) == sum

\* overall_confidence = min(overall_confidence, 0.95)
CapOverall(sum) == Min(sum, 95000)

\* the tiers classify_tier can return for min(sum, 0.95) computed in
\* floating point
TierOutcomes(sum) ==
    LET overall_confidence == CapOverall(sum)
    IN  {classify_tier(overall_confidence)}
          \cup IF sum \in {95000, 85000, 72000, 58000, 40000}
               THEN {classify_tier(overall_confidence - 1)} ELSE {}

\* round(overall_confidence, 2), in hundredths
RoundOutcomes(sum) ==
    LET overall_confidence == CapOverall(sum)
        q == overall_confidence \div 1000
        r == overall_confidence % 1000
    IN  IF r < 500 THEN {q} ELSE IF r > 500 THEN {q + 1} ELSE {q, q + 1}

\* the analyses calculate_confidence can return
calculate_confidence(timeline, applicant, market, family_size, reference_date) ==
    LET sum == WeightedSum(timeline, applicant, market, family_size,
                           reference_date)
    IN  { [overall_confidence |-> c, confidence_tier |-> tier] :
              c \in RoundOutcomes(sum), tier \in TierOutcomes(sum) }

\* deadlines passed, today, and 90, 91, 180, 181, 365, 366 and 500 days ahead
ConfPriorityDays == {99, 100, 190, 191, 280, 281, 465, 466, 600}
FilingRates == 0..100
FamilySizes == {0, 3, 4, 7, 8, 14, 15, 19, 20}
A61K31 == <<"A61K", "3", "1", "/00">>
A61P37 == <<"A61P", "3", "7", "/00">>
C07D401 == <<"C07D", "4", "0", "1", "/12">>
Markets ==
    [ therapeutic_area : { <<"Oncology">>, <<"Unknown">>,
                           <<"Pediatric", " ", "oncology">> },
      ipc_codes : { <<>>, <<A61K31>>, <<C07D401, A61P37>>, <<C07D401>> } ]
BehaviorWithRate(rate) == [from_dict(SeedRecord) EXCEPT !.filing_rate = rate]

InitConf ==
    \E day \in ConfPriorityDays, rate \in FilingRates, market \in Markets,
       family_size \in FamilySizes, reference_date \in ReferenceDates :
        conf = [ phase |-> "call",
                 wo_data |-> [ wo_number |-> <<"WO1">>,
                               brazil_designated |-> "true",
                               priority_date |-> [ok |-> TRUE, day |-> day],
                               applicant |-> PfizerInc ],
                 applicant |-> BehaviorWithRate(rate),
                 market |-> market,
                 family_size |-> family_size,
                 reference_date |-> reference_date,
                 overall |-> 0,
                 analysis |-> [overall_confidence |-> 0,
                               confidence_tier |-> "pending"] ]

\* a call of calculate_confidence on the timeline of the WO record; overall
\* is its local overall_confidence after the cap, from which the tier and
\* the reported value are taken
CalculateConfidence ==
    /\ conf.phase = "call"
    /\ LET timeline == from_wo_data(conf.wo_data, conf.reference_date)
       IN \E analysis \in calculate_confidence(timeline, conf.applicant,
                 conf.market, conf.family_size, conf.reference_date) :
            conf' = [conf EXCEPT
                       !.phase = "done",
                       !.overall = CapOverall(WeightedSum(timeline,
                                       conf.applicant, conf.market,
                                       conf.family_size, conf.reference_date)),
                       !.analysis = analysis]
    /\ UNCHANGED <<storeVars, concVars, gate, calVars>>

(***************************************************************************)
(* Claims about the confidence formula                                     *)
(***************************************************************************)
ConfDone == conf.phase = "done"

\* C9: calculate_confidence never returns the tiers PUBLISHED or FOUND: for
\* every timeline, filing rate, market multiplier and family size the tier
\* is one of INFERRED, EXPECTED, PREDICTED, SPECULATIVE.
C9_ReservedTiers ==
    ConfDone => conf.analysis.confidence_tier
                   \in {"INFERRED", "EXPECTED", "PREDICTED", "SPECULATIVE"}

\* Scenario A: filing rate 0.93, family of 15, area Oncology, priority 400
\* days before the reference date
ScenarioA ==
    /\ conf.applicant.filing_rate = 93
    /\ conf.family_size = 15
    /\ conf.market.therapeutic_area = <<"Oncology">>
    /\ conf.reference_date - conf.wo_data.priority_date.day = 400
    /\ conf.wo_data.brazil_designated = "true"

\* C10: in Scenario A calculate_confidence returns an overall_confidence in
\* [0.70, 0.95] and the tier INFERRED.
C10_ScenarioA ==
    (ConfDone /\ ScenarioA)
        => /\ conf.analysis.overall_confidence \in 70..95
           /\ conf.analysis.confidence_tier = "INFERRED"

ConfSum ==
    WeightedSum(from_wo_data(conf.wo_data, conf.reference_date), conf.applicant,
                conf.market, conf.family_size, conf.reference_date)

\* C11: the overall confidence that calculate_confidence computes, and the
\* value it reports, is at most 0.95 and at least 0, for every timeline,
\* filing rate, market multiplier and family size.
C11_AtMost95 ==
    ConfDone => /\ conf.overall \in 0..95000
                /\ conf.analysis.overall_confidence \in 0..95

\* a call whose weighted sum exceeds 0.95 and is reported as 0.95
C11_Witness ==
    /\ ConfDone
    /\ ConfSum > 95000
    /\ conf.overall = 95000
    /\ conf.analysis.overall_confidence = 95

\* the formula as the specification writes it: days remaining until the
\* deadline 900 days after the priority date, and the four scores
DaysRemaining == conf.wo_data.priority_date.day + 900 - conf.reference_date
StatedT ==
    IF DaysRemaining < 0 THEN 75
    ELSE IF DaysRemaining > 365 THEN 70
    ELSE IF DaysRemaining > 180 THEN 85
    ELSE IF DaysRemaining > 90 THEN 92
    ELSE 95
StatedMultiplier ==
    IF conf.applicant.filing_rate >= 90 THEN 12
    ELSE IF conf.applicant.filing_rate >= 70 THEN 10
    ELSE IF conf.applicant.filing_rate >= 40 THEN 8
    ELSE 6
StatedA == Min(Min(conf.applicant.filing_rate, 95) * StatedMultiplier, 950)
StatedM == 80 * market_multiplier(conf.market)
StatedF ==
    IF conf.family_size >= 20 THEN 95
    ELSE IF conf.family_size >= 15 THEN 88
    ELSE IF conf.family_size >= 8 THEN 75
    ELSE IF conf.family_size >= 4 THEN 60
    ELSE 45
StatedOverall ==
    Min(300 * StatedT + 40 * StatedA + 20 * StatedM + 100 * StatedF, 95000)

\* C12: calculate_confidence computes min(0.30 T + 0.40 A + 0.20 M + 0.10 F,
\* 0.95) with the stated buckets for T, A, M and F, for every input; a
\* family_size of 0 falls into the lowest bucket.
C12_Formula ==
    ConfDone => conf.overall = StatedOverall

\* a call with family_size 0 on a deadline exactly 365 days ahead
C12_Witness ==
    /\ ConfDone
    /\ conf.family_size = 0
    /\ DaysRemaining = 365
    /\ conf.overall = StatedOverall

\* C28: the tier reported in an analysis equals classify_tier applied to
\* the overall_confidence reported in the same analysis, the value rounded
\* to two decimals, for every input of calculate_confidence.
C28_TierOfReported ==
    ConfDone =>
        conf.analysis.confidence_tier
            = classify_tier(conf.analysis.overall_confidence * 1000)

(***************************************************************************)
(* add_predictive_layer: the loop over the WO filings, which appends the   *)
(* event of each filing that passes the gate, and the summary built from   *)
(* the events.  Of an event the model keeps the confidence_tier of its     *)
(* confidence_analysis.  The engine is built without a reference date, so  *)
(* its reference date is the day of the call.                              *)
(***************************************************************************)
SummaryFilings ==
    [ wo_number : {<<"WO1">>}, brazil_designated : {"true", "false"},
      priority_date : { [ok |-> TRUE, day |-> d] : d \in {190, 600} },
      applicant : {PfizerInc, Unknown},
      market : { [therapeutic_area |-> <<"Oncology">>, ipc_codes |-> <<A61K31>>],
                 [therapeutic_area |-> <<"Unknown">>, ipc_codes |-> <<>>] },
      family_size : {1, 20} ]
SummaryTiers == {"INFERRED", "EXPECTED", "PREDICTED", "SPECULATIVE"}
NoSummary ==
    [ total_inferred_events |-> 0, by_confidence_tier |-> [t \in SummaryTiers |-> 0] ]

\* the confidence_analysis of the event create_inferred_event builds
EventAnalyses(wo_data, applicant_database, reference_date) ==
    calculate_confidence(from_wo_data(wo_data, reference_date),
        EngineApplicant(applicant_database, wo_data.applicant),
        wo_data.market, wo_data.family_size, reference_date)

InitLayer ==
    \E n \in 0..MaxFilings, applicant_database \in ApplicantDatabases,
       reference_date \in ReferenceDates :
        \E wipo_patents \in [1..n -> SummaryFilings] :
            gate = [ phase |-> "events", wipo_patents |-> wipo_patents, next |-> 1,
                     applicant_database |-> applicant_database,
                     reference_date |-> reference_date,
                     inferred_events |-> <<>>, summary |-> NoSummary ]

\* one pass of "for wo in wipo_patents"
CreateEvent ==
    /\ gate.phase = "events"
    /\ gate.next <= Len(gate.wipo_patents)
    /\ LET wo == gate.wipo_patents[gate.next]
       IN IF should_create_inferred_event(wo, {}, gate.applicant_database,
                 gate.reference_date, gate.reference_date)
          THEN \E analysis \in EventAnalyses(wo, gate.applicant_database,
                                              gate.reference_date) :
                  gate' = [gate EXCEPT
                             !.next = @ + 1,
                             !.inferred_events = Append(@, analysis.confidence_tier)]
          ELSE gate' = [gate EXCEPT !.next = @ + 1]
    /\ UNCHANGED <<storeVars, concVars, conf, calVars>>

\* tier_summary and the summary section
BuildSummary ==
    /\ gate.phase = "events"
    /\ gate.next > Len(gate.wipo_patents)
    /\ gate' = [gate EXCEPT
                  !.phase = "done",
                  !.summary =
                      [ total_inferred_events |-> Len(gate.inferred_events),
                        by_confidence_tier |->
                            [ tier \in SummaryTiers |->
                                Cardinality({ i \in DOMAIN gate.inferred_events :
                                                gate.inferred_events[i] = tier }) ] ]]
    /\ UNCHANGED <<storeVars, concVars, conf, calVars>>

\* C29: in the summary of add_predictive_layer the counts of
\* by_confidence_tier sum to total_inferred_events, for every list of WO
\* filings and every applicant database.
C29_TierCountsSum ==
    gate.phase = "done" =>
        gate.summary.by_confidence_tier["INFERRED"]
          + gate.summary.by_confidence_tier["EXPECTED"]
          + gate.summary.by_confidence_tier["PREDICTED"]
          + gate.summary.by_confidence_tier["SPECULATIVE"]
            = gate.summary.total_inferred_events

(***************************************************************************)
(* The days remaining until the 30-month deadline, as the two engines      *)
(* compute them: PCTTimeline.days_until_deadline of predictive_layer.py    *)
(* and calculate_deadline of pharmyrus_layer4_predictive.py.  Dates are    *)
(* whole days; the deadline of the reference date 1000 is met by the       *)
(* priority date 100.                                                      *)
(***************************************************************************)
DeadlinePriorityDays == 40..160
DeadlineReferenceDates == {1000}

\* calculate_deadline(priority_date_str) of an engine whose self.today is
\* today: the deadline and the days remaining, ("unknown", -9999) when the
\* string does not parse
calculate_deadline(priority_date_str, today) ==
    LET priority == fromisoformat(priority_date_str)
    IN IF priority.ok
       THEN [ deadline |-> priority.day + ThirtyMonths,
              days_remaining |-> (priority.day + ThirtyMonths) - today ]
       ELSE [ deadline |-> -1, days_remaining |-> -9999 ]

InitDeadline ==
    \E day \in DeadlinePriorityDays, reference_date \in DeadlineReferenceDates :
        conf = [ phase |-> "call",
                 wo_data |-> [ brazil_designated |-> "true",
                               priority_date |-> [ok |-> TRUE, day |-> day] ],
                 reference_date |-> reference_date,
                 days_until_deadline |-> 0,
                 days_remaining |-> 0 ]

\* both engines asked for the days remaining of the same filing on the
\* same reference date
DaysUntilDeadline ==
    /\ conf.phase = "call"
    /\ LET timeline == from_wo_data(conf.wo_data, conf.reference_date)
           iso == [kind |-> "iso", day |-> conf.wo_data.priority_date.day]
       IN conf' = [conf EXCEPT
                     !.phase = "done",
                     !.days_until_deadline =
                         days_until_deadline(timeline, conf.reference_date),
                     !.days_remaining =
                         calculate_deadline(iso, conf.reference_date).days_remaining]
    /\ UNCHANGED <<storeVars, concVars, gate, calVars>>

\* C21: days_remaining is signed: for every priority date and reference
\* date the timeline's days remaining equal priority_date + 900 days -
\* reference_date, and are negative when the reference date is more than a
\* day past the deadline.
C21_SignedDaysRemaining ==
    ConfDone =>
        /\ conf.days_until_deadline = DaysRemaining
        /\ conf.reference_date > conf.wo_data.priority_date.day + 900 + 1
              => conf.days_until_deadline < 0

(***************************************************************************)
(* classify_certainty of the alternate engine                              *)
(* (pharmyrus_layer4_predictive.py).  Confidence scores are in units of    *)
(* 0.0001 and applicant rates in hundredths, so the three linear formulas  *)
(* are exact.                                                              *)
(***************************************************************************)
CertaintyLevel ==
    [ PUBLISHED |-> [min_conf |-> 9500, max_conf |-> 10000],
      FOUND     |-> [min_conf |-> 8500, max_conf |-> 9400],
      INFERRED  |-> [min_conf |-> 7000, max_conf |-> 8400],
      EXPECTED  |-> [min_conf |-> 5000, max_conf |-> 6900],
      PREDICTED |-> [min_conf |-> 3000, max_conf |-> 4900],
      NOT_YET   |-> [min_conf |-> 0, max_conf |-> 2900] ]

classify_certainty(br_designated, days, applicant_rate, family_size) ==
    IF days < 0 THEN [level |-> "NOT_YET", confidence_score |-> 500]
    ELSE IF ~br_designated THEN [level |-> "PREDICTED", confidence_score |-> 1500]
    ELSE IF br_designated /\ days > 0
    THEN IF applicant_rate >= 90
         THEN [ level |-> "INFERRED",
                confidence_score |-> 8000 + (applicant_rate - 90) * 40 ]
         ELSE IF applicant_rate >= 70
         THEN [ level |-> "EXPECTED",
                confidence_score |-> 6000 + (applicant_rate - 70) * 45 ]
         ELSE [ level |-> "PREDICTED",
                confidence_score |-> 3000 + applicant_rate * 40 ]
    ELSE [level |-> "PREDICTED", confidence_score |-> 3500]

CertaintyDays == {-9999, -1, 0, 1, 400}

InitCertainty ==
    \E br_designated \in BOOLEAN, days \in CertaintyDays,
       applicant_rate \in FilingRates, family_size \in {1, 15} :
        conf = [ phase |-> "call", br_designated |-> br_designated,
                 days_until_deadline |-> days,
                 applicant_rate |-> applicant_rate,
                 family_size |-> family_size,
                 certainty |-> [level |-> "pending", confidence_score |-> 0] ]

ClassifyCertainty ==
    /\ conf.phase = "call"
    /\ conf' = [conf EXCEPT
                  !.phase = "done",
                  !.certainty = classify_certainty(conf.br_designated,
                                    conf.days_until_deadline,
                                    conf.applicant_rate, conf.family_size)]
    /\ UNCHANGED <<storeVars, concVars, gate, calVars>>

\* C25: the confidence score classify_certainty returns lies within the
\* [min_conf, max_conf] range declared for the CertaintyLevel it returns,
\* for every br_designated, days_until_deadline and applicant_rate.
C25_ScoreWithinLevel ==
    ConfDone =>
        /\ conf.certainty.confidence_score
               >= CertaintyLevel[conf.certainty.level].min_conf
        /\ conf.certainty.confidence_score
               <= CertaintyLevel[conf.certainty.level].max_conf

(***************************************************************************)
(* classify_tier on its own: every confidence of [0, 1] on a grid that     *)
(* holds each hundredth, its two neighbours and its midpoint               *)
(***************************************************************************)
Confidences == { c \in 0..100000 : c % 1000 \in {0, 1, 500, 999} }

InitClassify ==
    \E c \in Confidences :
        conf = [phase |-> "classify", confidence |-> c, tier |-> "pending"]

ClassifyTier ==
    /\ conf.phase = "classify"
    /\ conf' = [conf EXCEPT !.phase = "classified",
                            !.tier = classify_tier(conf.confidence)]
    /\ UNCHANGED <<storeVars, concVars, gate, calVars>>

MaxBatch == 3
MaxCalls == 2
ScenarioSize == 100

Scores == {60, 95}
PubYears == {2020, 2024}
NoStats == [total |-> 0, by_confidence_tier |-> <<>>]
CalTiers == {"FOUND", "INFERRED", "EXPECTED", "PREDICTED", "SPECULATIVE"}

\* a scored prediction; days_until_deadline is not a key of the events the
\* engine receives, so it reads as the default 180
Prediction(score, year, inv_count) ==
    [ overall_confidence |-> score,
      confidence_tier |-> classify_tier(score * 1000),
      year |-> year, inv_count |-> inv_count, days_left |-> 180 ]
PredictionInputs == { Prediction(score, year, 1) : score \in Scores, year \in PubYears }

\* the batch of the module's self test: identical scores of 0.60,
\* publication years 2020..2024 and one to five inventors in turn
ScenarioBatch ==
    [ i \in 1..ScenarioSize |->
        Prediction(60, 2020 + ((i - 1) % 5), ((i - 1) % 5) + 1) ]

BaseScoreOf_FromPrediction(preds, scores, i) == preds[i].overall_confidence

\* base_score = self.raw_scores[i]
BaseScoreOf(preds, scores, i) == scores[i]

\* the composite score, in hundredths
Composite(pred, base_score) ==
    base_score * 1000 + (pred.year - 2015) * 100 + pred.inv_count * 50
      + (365 - pred.days_left)

\* position of item i in sorted(..., reverse=True): the sort is stable, so
\* items of equal composite keep their order
RankOf(composite_scores, i) ==
    Cardinality({ j \in DOMAIN composite_scores :
                    composite_scores[j] > composite_scores[i] })
      + Cardinality({ j \in DOMAIN composite_scores :
                        j < i /\ composite_scores[j] = composite_scores[i] })

TierOfRank_Top10(rank, total) ==
    IF 100 * rank < 10 * total THEN "FOUND"
    ELSE IF 100 * rank < 40 * total THEN "INFERRED"
    ELSE IF 100 * rank < 75 * total THEN "EXPECTED"
    ELSE IF 100 * rank < 95 * total THEN "PREDICTED"
    ELSE "SPECULATIVE"

\* percentile = (rank / total) * 100 against 15, 40, 75, 95
TierOfRank(rank, total) ==
    IF 100 * rank < 15 * total THEN "FOUND"
    ELSE IF 100 * rank < 40 * total THEN "INFERRED"
    ELSE IF 100 * rank < 75 * total THEN "EXPECTED"
    ELSE IF 100 * rank < 95 * total THEN "PREDICTED"
    ELSE "SPECULATIVE"

AdjustedScore(tier, base_score) ==
    CASE tier = "FOUND" -> Min(base_score + 20, 95)
      [] tier = "INFERRED" -> Min(base_score + 10, 90)
      [] tier = "EXPECTED" -> base_score
      [] tier = "PREDICTED" -> Max(base_score - 5, 40)
      [] OTHER -> Max(base_score - 10, 35)

\* the predictions after finalize_and_classify has written the tier and the
\* adjusted score into each confidence_analysis
finalize_and_classify(preds, scores) ==
    LET composite_scores ==
            [ i \in DOMAIN preds |->
                Composite(preds[i], BaseScoreOf(preds, scores, i)) ]
        total == Len(preds)
    IN  [ i \in DOMAIN preds |->
            LET tier == TierOfRank(RankOf(composite_scores, i), total)
            IN  [ preds[i] EXCEPT
                    !.overall_confidence =
                        AdjustedScore(tier, BaseScoreOf(preds, scores, i)),
                    !.confidence_tier = tier ] ]

\* tier_counts of get_statistics
TierCounts(preds) ==
    [ tier \in { preds[i].confidence_tier : i \in DOMAIN preds } |->
        Cardinality({ i \in DOMAIN preds : preds[i].confidence_tier = tier }) ]

InitCal ==
    /\ predictions \in {<<>>, ScenarioBatch}
    /\ raw_scores = [i \in DOMAIN predictions |-> predictions[i].overall_confidence]
    /\ updated_predictions = <<>>
    /\ stats = NoStats
    /\ calls = 0

AddPrediction ==
    /\ Len(predictions) < MaxBatch
    /\ \E prediction \in PredictionInputs :
          /\ predictions' = Append(predictions, prediction)
          /\ raw_scores' = Append(raw_scores, prediction.overall_confidence)
    /\ UNCHANGED <<updated_predictions, stats, calls, storeVars, concVars, gate, conf>>

FinalizeAndClassify ==
    /\ calls < MaxCalls
    /\ calls' = calls + 1
    /\ predictions' = finalize_and_classify(predictions, raw_scores)
    /\ updated_predictions' = predictions'
    /\ UNCHANGED <<raw_scores, stats, storeVars, concVars, gate, conf>>

GetStatistics ==
    /\ calls < MaxCalls
    /\ calls' = calls + 1
    /\ IF Len(raw_scores) = 0
       THEN /\ stats' = NoStats
            /\ UNCHANGED <<predictions, updated_predictions>>
       ELSE /\ predictions' = finalize_and_classify(predictions, raw_scores)
            /\ updated_predictions' = predictions'
            /\ stats' = [ total |-> Len(predictions'),
                          by_confidence_tier |-> TierCounts(predictions') ]
    /\ UNCHANGED <<raw_scores, storeVars, concVars, gate, conf>>

(***************************************************************************)
(* Claims about the distribution calibrator                                *)
(***************************************************************************)
\* the engine has classified the batch it holds now
Classified ==
    calls >= 1 /\ Len(predictions) > 0
      /\ Len(updated_predictions) = Len(predictions)

\* C15: finalize_and_classify and get_statistics leave every prediction that
\* was passed to the engine unchanged: only add_prediction, which lengthens
\* the list, may change the engine's predictions.
C15_PureTransform ==
    [][Len(predictions') = Len(predictions) => predictions' = predictions]_vars

\* C16: every further call of finalize_and_classify or get_statistics on
\* the same batch returns the adjusted overall_confidence and tier of the
\* call before it, hence of the first call.
C16_NoDrift ==
    [][(calls' = calls + 1 /\ Classified /\ Len(predictions') = Len(predictions))
          => \A i \in DOMAIN updated_predictions :
                /\ updated_predictions'[i].overall_confidence
                      = updated_predictions[i].overall_confidence
                /\ updated_predictions'[i].confidence_tier
                      = updated_predictions[i].confidence_tier]_vars

\* the batch of 100 after two calls; the first item was boosted from 0.60
C16_Witness ==
    /\ calls = 2
    /\ Len(predictions) = ScenarioSize
    /\ Len(updated_predictions) = ScenarioSize
    /\ raw_scores[5] = 60
    /\ updated_predictions[5].overall_confidence = 80

\* the band of 0-based rank r among N items, as the specification states it
StatedBand(r, N) ==
    IF 100 * r < 15 * N THEN "FOUND"
    ELSE IF 100 * r < 40 * N THEN "INFERRED"
    ELSE IF 100 * r < 75 * N THEN "EXPECTED"
    ELSE IF 100 * r < 95 * N THEN "PREDICTED"
    ELSE "SPECULATIVE"
RankKey(i) == Composite(predictions[i], raw_scores[i])
Higher(i) == Cardinality({ j \in DOMAIN predictions : RankKey(j) > RankKey(i) })
Equal(i) == Cardinality({ j \in DOMAIN predictions : RankKey(j) = RankKey(i) })
CountOf(tier) ==
    Cardinality({ i \in DOMAIN predictions : predictions[i].confidence_tier = tier })
Within1(n, target) == n \in (target - 1)..(target + 1)

\* C17: the calibrator assigns tiers by rank alone: each item carries the
\* band of a rank it can take in the descending order of the composite keys,
\* each band is given to as many items as there are ranks in it, whatever
\* the base scores; and 100 identical base scores of 0.60 yield FOUND 15,
\* INFERRED 25, EXPECTED 35, PREDICTED 20, SPECULATIVE 5, within 1.
C17_RankBands ==
    Classified =>
        LET N == Len(predictions)
        IN  /\ \A i \in DOMAIN predictions :
                  \E r \in Higher(i)..(Higher(i) + Equal(i) - 1) :
                      predictions[i].confidence_tier = StatedBand(r, N)
            /\ \A tier \in CalTiers :
                  CountOf(tier)
                    = Cardinality({ r \in 0..(N - 1) : StatedBand(r, N) = tier })
            /\ (N = 100 /\ \A i \in DOMAIN raw_scores : raw_scores[i] = 60)
                  => /\ Within1(CountOf("FOUND"), 15)
                     /\ Within1(CountOf("INFERRED"), 25)
                     /\ Within1(CountOf("EXPECTED"), 35)
                     /\ Within1(CountOf("PREDICTED"), 20)
                     /\ Within1(CountOf("SPECULATIVE"), 5)

\* get_statistics on the batch of 100 identical scores
C17_Witness ==
    /\ Classified
    /\ Len(predictions) = 100
    /\ \A i \in DOMAIN raw_scores : raw_scores[i] = 60
    /\ stats.total = 100
    /\ stats.by_confidence_tier["FOUND"] = 15
    /\ stats.by_confidence_tier["SPECULATIVE"] = 5

\* the evidentiary strength of a tier
TierStrength(tier) ==
    CASE tier = "FOUND" -> 5
      [] tier = "INFERRED" -> 4
      [] tier = "EXPECTED" -> 3
      [] tier = "PREDICTED" -> 2
      [] OTHER -> 1

\* C27: in the calibrator's output tiers and adjusted scores agree in
\* order: an item of a strictly higher tier (FOUND > INFERRED > EXPECTED >
\* PREDICTED > SPECULATIVE) has an adjusted overall_confidence at least as
\* large as an item of a lower tier.
C27_TiersOrderScores ==
    Classified =>
        \A a \in DOMAIN updated_predictions, b \in DOMAIN updated_predictions :
            TierStrength(updated_predictions[a].confidence_tier)
                > TierStrength(updated_predictions[b].confidence_tier)
              => updated_predictions[a].overall_confidence
                    >= updated_predictions[b].overall_confidence

(***************************************************************************)
(* The call of the search pipeline (search_patents of main_v30.3): every   *)
(* WO number the search found is passed with the applicant 'Unknown', the  *)
(* BR patents are passed as the crawlers delivered them.  gate holds what  *)
(* the search found.                                                       *)
(***************************************************************************)
InitSearch ==
    /\ database \in PriorStores \cup {LearnedDb}
    /\ file = IF database = EmptyDb THEN NoFile ELSE FileOf(database)
    /\ last = [ op |-> "init", data |-> NoCall, updated |-> {},
                saved |-> FALSE, repeat |-> FALSE ]
    /\ \E all_wos \in SUBSET WOIds, all_patents \in BrLists :
          gate = [ phase |-> "searched", all_wos |-> all_wos,
                   all_patents |-> all_patents ]

SearchPatentsLearn ==
    /\ gate.phase = "searched"
    /\ \E now \in Times :
          learn_from_search_results(
              {[applicant |-> Unknown, wo_number |-> wo] : wo \in gate.all_wos},
              gate.all_patents, "Oncology", now)
    /\ gate' = [gate EXCEPT !.phase = "learned"]
    /\ UNCHANGED <<concVars, conf, calVars>>

\* C30: when learn_from_search_results is called with every WO observation
\* carrying the applicant 'Unknown', as the search pipeline calls it, the
\* store is left unchanged and nothing is saved, whatever BR observations
\* are supplied.
C30_UnknownOnlyNoOp ==
    [][gate'.phase = "learned" =>
          /\ database' = database
          /\ file' = file
          /\ ~last'.saved
          /\ last'.updated = {}]_vars

\* a pipeline call that found WOs and a BR patent of Pfizer Inc. with its
\* WO reference, on a store that knows the applicant
C30_Witness ==
    /\ gate.phase = "learned"
    /\ gate.all_wos = WOIds
    /\ \E br \in gate.all_patents :
          br.applicant = PfizerIncDot /\ br.wo_reference = "WO2"
    /\ last.data[PfizerInc].brs = {"WO2"}
    /\ database = LearnedDb
    /\ ~last.saved

(***************************************************************************)
(* A crash during _save_database                                           *)
(*                                                                         *)
(* learn_from_search_results has updated the store in memory and calls     *)
(* _save_database: open(path, 'w') truncates the file, json.dump writes    *)
(* the text, the with block closes it.  The process can die between any    *)
(* two of these steps; a new process then loads the file.  last holds the  *)
(* position of the save, the file before it and the database being saved.  *)
(***************************************************************************)
InitSave ==
    \E previous \in PriorStores, data \in ObservingData, now \in Times :
        LET upd == _update_applicant(previous, TheApplicant,
                                     data[TheApplicant], now)
        IN  /\ upd.ret
            /\ database = upd.db
            /\ file = IF previous = EmptyDb THEN NoFile ELSE FileOf(previous)
            /\ last = [ op |-> "save", previous |-> file, new |-> upd.db ]

\* open(self.database_path, 'w')
SaveOpen ==
    /\ last.op = "save"
    /\ file' = PartialFile
    /\ last' = [last EXCEPT !.op = "dump"]
    /\ UNCHANGED <<database, concVars, gate, conf, calVars>>

\* json.dump(self.database, f, ...) and the close of the file
SaveDump ==
    /\ last.op = "dump"
    /\ file' = FileOf(database)
    /\ last' = [last EXCEPT !.op = "saved"]
    /\ UNCHANGED <<database, concVars, gate, conf, calVars>>

\* the process dies: its memory is lost, the file stays as it is
Crash ==
    /\ last.op \in {"save", "dump", "saved"}
    /\ database' = EmptyDb
    /\ last' = [last EXCEPT !.op = "crashed"]
    /\ UNCHANGED <<file, concVars, gate, conf, calVars>>

\* a new process: ApplicantLearningSystem.__init__ loads the file
Reload ==
    /\ last.op = "crashed"
    /\ database' = _load_database(file)
    /\ last' = [last EXCEPT !.op = "restarted"]
    /\ UNCHANGED <<file, concVars, gate, conf, calVars>>

\* C18: after a crash at any point of a save the file holds the complete
\* previous contents or the complete new contents, and the restart loads one
\* of these two states.
C18_AtomicSave ==
    /\ last.op \in {"crashed", "restarted"}
          => file \in {last.previous, FileOf(last.new)}
    /\ last.op = "restarted"
          => database \in {_load_database(last.previous), last.new}

IdleConc ==
    /\ mode = "idle" /\ workers = <<>> /\ stores = <<>>
    /\ cfile = NoFile /\ prior = EmptyDb
IdleGate == gate = [phase |-> "idle"]
IdleConf == conf = [phase |-> "idle"]
IdleCal ==
    /\ predictions = <<>> /\ raw_scores = <<>> /\ updated_predictions = <<>>
    /\ stats = NoStats /\ calls = 0

\* the store after construction: the file is missing, or holds the seed
\* database that build_applicant_database.py wrote
InitStore ==
    /\ file \in {NoFile, FileOf(SeedDb)}
    /\ database = _load_database(file)
    /\ last = [ op |-> "init", data |-> NoCall, updated |-> {},
                saved |-> FALSE, repeat |-> FALSE ]

Init == InitStore /\ IdleConc /\ IdleGate /\ IdleConf /\ IdleCal
Next == Learn \/ MergeSeed \/ Restart
Spec == Init /\ [][Next]_vars

\* the store with the Firebase import among its operations
NextI == Learn \/ MergeSeed \/ Restart \/ ImportFromFirebase
SpecImport == Init /\ [][NextI]_vars

InitC == IdleStore /\ InitConc /\ IdleGate /\ IdleConf /\ IdleCal
NextC == \E w \in Workers : CRead(w) \/ CWrite(w) \/ CSave(w)
SpecConc == InitC /\ [][NextC]_vars

InitG == IdleStore /\ IdleConc /\ InitGate /\ IdleConf /\ IdleCal
NextG == create_inferred_event
SpecGate == InitG /\ [][NextG]_vars

InitF == IdleStore /\ IdleConc /\ IdleGate /\ InitConf /\ IdleCal
NextF == CalculateConfidence
SpecConf == InitF /\ [][NextF]_vars

InitT == IdleStore /\ IdleConc /\ IdleGate /\ InitClassify /\ IdleCal
NextT == ClassifyTier
SpecTier == InitT /\ [][NextT]_vars

InitD == IdleStore /\ IdleConc /\ IdleGate /\ IdleConf /\ InitCal
NextD == AddPrediction \/ FinalizeAndClassify \/ GetStatistics
SpecCal == InitD /\ [][NextD]_vars

InitS == InitSave /\ IdleConc /\ IdleGate /\ IdleConf /\ IdleCal
NextS == SaveOpen \/ SaveDump \/ Crash \/ Reload
SpecSave == InitS /\ [][NextS]_vars

InitL == IdleStore /\ IdleConc /\ InitTimeline /\ IdleConf /\ IdleCal
NextL == FromWoData
SpecTimeline == InitL /\ [][NextL]_vars

InitY == IdleStore /\ IdleConc /\ IdleGate /\ InitDeadline /\ IdleCal
NextY == DaysUntilDeadline
SpecDeadline == InitY /\ [][NextY]_vars

InitK == IdleStore /\ IdleConc /\ InitLookup /\ IdleConf /\ IdleCal
NextK == GetApplicantBehavior \/ EngineLookup
SpecLookup == InitK /\ [][NextK]_vars

InitN ==
    /\ database = EmptyDb
    /\ file = NoFile
    /\ last = [ op |-> "init", data |-> NoCall, updated |-> {},
                saved |-> FALSE, repeat |-> FALSE ]
    /\ IdleConc /\ IdleGate /\ IdleConf /\ IdleCal
NextN == LearnNamed
SpecNames == InitN /\ [][NextN]_vars

NextM == LearnMany \/ MergeSeed \/ Restart
SpecEvidence == Init /\ [][NextM]_vars

InitZ == IdleStore /\ IdleConc /\ IdleGate /\ InitCertainty /\ IdleCal
NextZ == ClassifyCertainty
SpecCertainty == InitZ /\ [][NextZ]_vars

\* searches only, on a store that starts empty
InitE == Init /\ database = EmptyDb
NextE == Learn
SpecLearn == InitE /\ [][NextE]_vars

InitP == InitSearch /\ IdleConc /\ IdleConf /\ IdleCal
NextP == SearchPatentsLearn
SpecSearch == InitP /\ [][NextP]_vars

InitA == IdleStore /\ IdleConc /\ InitLayer /\ IdleConf /\ IdleCal
NextA == CreateEvent \/ BuildSummary
SpecLayer == InitA /\ [][NextA]_vars
====
